---- MODULE Spec2Model ----
(***************************************************************************)
(* State-machine model of the lms_project Django application: the learning *)
(* views (course list cache, course create/update/delete, lesson creation, *)
(* enrollment, certificates, session favourites) and the auth_app views    *)
(* and signal receivers (login with "remember me", registration, default   *)
(* group).  Database tables are sets of rows, the cache and the session    *)
(* are explicit variables, and a request that spans several database or    *)
(* cache statements is split at those statements so that requests of       *)
(* different clients interleave as they do under a multi-worker server.    *)
(***************************************************************************)
EXTENDS Integers, Sequences, FiniteSets, Bags, TLC

(***************************************************************************)
(* Bounds of the model.                                                    *)
(***************************************************************************)
MaxNewCourses == 1      \* courses created on top of the seeded ones
MaxMutations  == 2      \* committed course create/update/delete requests
MaxLessons    == 2      \* Lesson rows ever inserted
MaxTracking   == 2      \* Tracking rows, committed or being inserted
MaxFav        == 3      \* length of the session's favourites list
MaxClock      == 1      \* ticks of the wall clock read by datetime.now()

(***************************************************************************)
(* Users, permissions, identifiers.                                        *)
(***************************************************************************)
Anon == "anon"                       \* AnonymousUser
Users == {"a", "b", "p"}             \* rows of auth_app.User used as request.user
Clients == Users \cup {Anon}

\* Permissions of the two groups of the project (tests.py): authors manage
\* courses and lessons, pupils may enroll.  "b" is in both groups.
UserPerms(u) ==
    CASE u = "a" -> {"learning.add_course", "learning.change_course",
                     "learning.delete_course", "learning.add_lesson"}
      [] u = "b" -> {"learning.add_course", "learning.change_course",
                     "learning.delete_course", "learning.add_lesson",
                     "learning.add_tracking"}
      [] u = "p" -> {"learning.add_tracking"}
      [] OTHER   -> {}

SeedCourses == {1, 2}
CourseIds == 1 .. (2 + MaxNewCourses)
Titles == {"t0", "t1"}
ReqIds == {1, 2}                     \* concurrently running enroll requests

\* Optional values: <<>> is None / SQL NULL, <<v>> is the value v.
None == <<>>
Some(v) == <<v>>

VARIABLES
    courses,      \* ids of the rows of learning_course
    title,        \* title[c]: the editable content of course c
    authors,      \* authors[c]: Course.authors of course c
    nextCourse,   \* next auto-increment id of learning_course
    lessons,      \* rows of learning_lesson: [id, course]
    nextLesson,   \* next auto-increment id of learning_lesson
    tracking,     \* committed rows of learning_tracking, a bag of [user, lesson, passed]
    ereq,         \* running enroll requests: [pc, user, course, lessons, rows]
    cache,        \* cache entry 'courses': None or Some(snapshot)
    mainQs,       \* result cache of the class attribute MainView.queryset
    dbVer,        \* number of completed course create/update/delete requests
    mreq,         \* running course create/delete request
    favourites,   \* request.session['favourites']: None or Some(list)
    groupDb,      \* names of the rows of auth_group
    userDb,       \* registered accounts
    userGroups,   \* userGroups[e]: groups of account e
    session,      \* the browser session of the auth views
    clock,        \* wall clock
    resp          \* the response of the last completed request

vars == <<courses, title, authors, nextCourse, lessons, nextLesson, tracking,
          ereq, cache, mainQs, dbVer, mreq, favourites,
          groupDb, userDb, userGroups, session, clock, resp>>

courseVars == <<courses, title, authors, nextCourse>>
lessonVars == <<lessons, nextLesson>>
enrollVars == <<tracking, ereq>>
cacheVars  == <<cache, mainQs, dbVer, mreq>>
authVars   == <<groupDb, userDb, userGroups, session, clock>>

\* A response: the view that answered, what it answered, and a number that
\* goes with it (rows written, the course listed, ...).
Resp(op, result, n) == [op |-> op, result |-> result, n |-> n]

(***************************************************************************)
(* Access control of the decorators and mixins.                            *)
(***************************************************************************)
\* login_required / LoginRequiredMixin
is_authenticated(u) == u # Anon

\* permission_required / PermissionRequiredMixin
has_perm(u, perm) == is_authenticated(u) /\ perm \in UserPerms(u)

\* The response of a guarded view to a client that is refused, "" if admitted.
Refusal(u, perm) ==
    IF ~is_authenticated(u) THEN "redirect_login"
    ELSE IF ~has_perm(u, perm) THEN "403"
    ELSE ""

IdleEnroll == [pc |-> "idle", user |-> Anon, course |-> 0, lessons |-> {}, rows |-> EmptyBag]
IdleMut == [pc |-> "idle", user |-> Anon, course |-> 0, title |-> "t0"]

Init ==
    /\ courses = SeedCourses
    /\ title = [c \in CourseIds |-> "t0"]
    /\ authors = [c \in CourseIds |-> IF c = 1 THEN {"a"} ELSE IF c = 2 THEN {"b"} ELSE {}]
    /\ nextCourse = 3
    /\ lessons = {}
    /\ nextLesson = 1
    /\ tracking = EmptyBag
    /\ ereq = [r \in ReqIds |-> IdleEnroll]
    /\ cache = None
    /\ mainQs = None
    /\ dbVer = 0
    /\ mreq = IdleMut
    /\ favourites = None
    /\ groupDb = {}
    /\ userDb = {}
    /\ userGroups = [e \in {"x", "y"} |-> {}]
    /\ session = [user |-> Anon, remember |-> None, expiry |-> "unset"]
    /\ clock = 0
    /\ resp = Resp("", "", 0)

(***************************************************************************)
(* Lessons: LessonCreateView.                                              *)
(***************************************************************************)
\* The lessons query without its course filter
LessonsOfAnyCourse(c) == lessons

\* Lesson.objects.filter(course=course_id)
LessonsOfCourse(c) == {l \in lessons : l.course = c}

\* Course.objects.filter(authors=request.user): the choices of the form's
\* course field (get_form).
AuthoredCourses(u) == {c \in courses : u \in authors[c]}

\* The access check that runs before LessonCreateView handles a request.  The
\* class lists CreateView before LoginRequiredMixin and PermissionRequiredMixin,
\* so View.dispatch is found first in the method resolution order and the
\* mixins' dispatch (the login and permission check) is never called: nobody
\* is refused here.
LessonCreateRefusal(u) == ""

\* POST create_lesson by client u with the form's course field set to c;
\* err is what the pre_save receiver answers (an error text or nothing).
LessonCreate(u, c, err) ==
    /\ nextLesson <= MaxLessons
    /\ LET result ==
           IF LessonCreateRefusal(u) # "" THEN LessonCreateRefusal(u)
           ELSE IF ~is_authenticated(u) THEN "error"      \* filter(authors=AnonymousUser) raises
           ELSE IF c \notin AuthoredCourses(u) THEN "form_invalid"
           ELSE IF err THEN "form_invalid"
           ELSE "created"
       IN /\ UNCHANGED resp
          /\ IF result = "created"
             THEN /\ lessons' = lessons \cup {[id |-> nextLesson, course |-> c]}
                  /\ nextLesson' = nextLesson + 1
             ELSE UNCHANGED lessonVars
    /\ UNCHANGED <<courseVars, enrollVars, cacheVars, favourites, authVars>>

(***************************************************************************)
(* Enrollment: enroll, run inside transaction.atomic.  Rows inserted by a  *)
(* running request are in ereq[r].rows and become visible to other         *)
(* requests when the transaction commits.                                  *)
(***************************************************************************)
\* The rows of user u for lessons of course c, a bag:
\* Tracking.objects.filter(user=u, lesson__course=c)
TrackingOf(u, c) ==
    LET sel == {t \in BagToSet(tracking) :
                   t.user = u /\ \E l \in lessons : l.id = t.lesson /\ l.course = c}
    IN [t \in sel |-> tracking[t]]

\* records = [Tracking(lesson=lesson, user=request.user, passed=False) for lesson in lessons]
NewRecords(u, ls) ==
    [t \in {[user |-> u, lesson |-> l.id, passed |-> FALSE] : l \in ls} |-> 1]

\* enroll up to the existence check: the decorators, then
\* Tracking.objects.filter(...).exists()
EnrollBegin(r, u, c) ==
    /\ ereq[r].pc = "idle"
    /\ IF Refusal(u, "learning.add_tracking") # ""
       THEN UNCHANGED ereq          \* redirect to the login page, or 403
       ELSE IF TrackingOf(u, c) # EmptyBag
       THEN UNCHANGED ereq          \* 'already enrolled'
       ELSE ereq' = [ereq EXCEPT ![r] = [pc |-> "checked", user |-> u, course |-> c,
                                         lessons |-> {}, rows |-> EmptyBag]]
    /\ UNCHANGED <<courseVars, lessonVars, tracking, cacheVars, favourites, authVars, resp>>

\* Rows of learning_tracking, committed or inserted by a running request
RowsInFlight ==
    BagCardinality(tracking) + BagCardinality(ereq[1].rows) + BagCardinality(ereq[2].rows)

\* The lessons query and Tracking.objects.bulk_create(records)
EnrollCreate(r) ==
    /\ ereq[r].pc = "checked"
    /\ LET ls == LessonsOfCourse(ereq[r].course) IN
       /\ RowsInFlight + Cardinality(ls) <= MaxTracking
       /\ ereq' = [ereq EXCEPT ![r].pc = "created", ![r].lessons = ls,
                               ![r].rows = NewRecords(ereq[r].user, ls)]
    /\ UNCHANGED <<courseVars, lessonVars, tracking, cacheVars, favourites, authVars, resp>>

\* An INSERT of rows into the table: learning_tracking takes any rows, the
\* data model names no uniqueness constraint on (user, lesson).
TrackingInsert(table, rows) == table (+) rows

\* learning_tracking after the transaction of request r has committed
AfterCommit(r) == TrackingInsert(tracking, ereq[r].rows)

\* course_enroll.send returned: the view returns the redirect and the
\* transaction commits.
EnrollCommit(r) ==
    /\ ereq[r].pc = "created"
    /\ tracking' = AfterCommit(r)
    /\ resp' = Resp("enroll", "redirect_tracking", BagCardinality(ereq[r].rows))
    /\ ereq' = [ereq EXCEPT ![r] = IdleEnroll]
    /\ UNCHANGED <<courseVars, lessonVars, cacheVars, favourites, authVars>>

\* learning_tracking after a failure when the inserts were autocommitted
\* (enroll without transaction.atomic)
AfterFailureAutocommit(r) == TrackingInsert(tracking, ereq[r].rows)

\* learning_tracking after the transaction of request r was rolled back
AfterRollback(r) == tracking

\* A receiver of course_enroll raised: the exception leaves the atomic block
\* and the transaction is rolled back.
EnrollFail(r) ==
    /\ ereq[r].pc = "created"
    /\ tracking' = AfterRollback(r)
    /\ resp' = Resp("enroll", "error", BagCardinality(ereq[r].rows))
    /\ ereq' = [ereq EXCEPT ![r] = IdleEnroll]
    /\ UNCHANGED <<courseVars, lessonVars, cacheVars, favourites, authVars>>

\* A Tracking row is marked passed (the completion status of the data model).
MarkPassed(t) ==
    /\ BagIn(t, tracking)
    /\ ~t.passed
    /\ tracking' = (tracking (-) SetToBag({t})) (+) SetToBag({[t EXCEPT !.passed = TRUE]})
    /\ UNCHANGED <<courseVars, lessonVars, ereq, cacheVars, favourites, authVars, resp>>

(***************************************************************************)
(* Certificates: get_certificate_view.                                     *)
(***************************************************************************)
\* Count('lesson__course'): the number of rows (every row has a course)
CountRows(rows) == BagCardinality(rows)

\* Sum('passed') with NULL replaced by 0 (Coalesce)
SumPassedOrZero(rows) ==
    Some(BagCardinality([t \in {x \in BagToSet(rows) : x.passed} |-> rows[t]]))

\* Sum('passed'): NULL over no rows, else the number of rows with passed = True
SumPassed(rows) ==
    IF rows = EmptyBag THEN None
    ELSE Some(BagCardinality([t \in {x \in BagToSet(rows) : x.passed} |-> rows[t]]))

\* .aggregate(total_passed=Count('lesson__course'), fact_passed=Sum('passed'))
CountPassed(u, c) ==
    [total_passed |-> CountRows(TrackingOf(u, c)),
     fact_passed  |-> SumPassed(TrackingOf(u, c))]

\* count_passed['total_passed'] == count_passed['fact_passed']
CertificateIssuable(u, c) == Some(CountPassed(u, c).total_passed) = CountPassed(u, c).fact_passed

\* What get_certificate_view answers to client u for course c
CertificateResponse(u, c) ==
    IF ~is_authenticated(u) THEN "redirect_login"          \* login_required
    ELSE IF CertificateIssuable(u, c) THEN "certificate_sent"   \* get_certificate.send
    ELSE "not_completed"

GetCertificate(u, c) ==
    /\ resp' = Resp("get_certificate", CertificateResponse(u, c), 0)
    /\ UNCHANGED <<courseVars, lessonVars, enrollVars, cacheVars, favourites, authVars>>

\* Lessons and concurrently running enroll requests.
NextEnroll ==
    \/ \E u \in Clients, c \in courses, err \in BOOLEAN : LessonCreate(u, c, err)
    \/ \E r \in ReqIds, u \in Clients, c \in courses : EnrollBegin(r, u, c)
    \/ \E r \in ReqIds : EnrollCreate(r)
    \/ \E r \in ReqIds : EnrollCommit(r)
    \/ \E r \in ReqIds : EnrollFail(r)

SpecEnroll == Init /\ [][NextEnroll]_vars

\* Lessons, enroll requests served one at a time, completion and certificates.
NextCert ==
    \/ \E u \in Clients, c \in courses, err \in BOOLEAN : LessonCreate(u, c, err)
    \/ \E u \in Clients, c \in courses : EnrollBegin(1, u, c)
    \/ EnrollCreate(1)
    \/ EnrollCommit(1)
    \/ EnrollFail(1)
    \/ \E t \in BagToSet(tracking) : MarkPassed(t)
    \/ \E u \in Clients, c \in courses : GetCertificate(u, c)

SpecCert == Init /\ [][NextCert]_vars


(***************************************************************************)
(* The course list and its cache: MainView.get_queryset.                   *)
(***************************************************************************)
\* Course.objects.all() evaluated now: the rows, and the number of course
\* mutations they reflect.
Snapshot == [rows |-> [c \in courses |-> title[c]], ver |-> dbVer]

\* The contents of MainView.queryset after cache.set has pickled it.  The
\* queryset is a class attribute shared by all requests; pickling a queryset
\* evaluates it and keeps the rows in it, so it is read from the database
\* once and never again.
EvaluatedMainQs == IF mainQs = None THEN Some(Snapshot) ELSE mainQs

\* MainView.get_queryset for a request without search parameters: what it
\* does to the cache and to MainView.queryset
MainGetQueryset ==
    IF cache # None
    THEN UNCHANGED <<cache, mainQs>>                  \* queryset = cache.get('courses')
    ELSE /\ mainQs' = EvaluatedMainQs                 \* queryset = MainView.queryset
         /\ cache' = mainQs'                          \* cache.set('courses', queryset, timeout=30)

\* GET index without search parameters
MainViewList ==
    /\ MainGetQueryset
    /\ resp' = Resp("index", IF cache # None THEN "hit" ELSE "miss", cache'[1].ver)
    /\ UNCHANGED <<courseVars, lessonVars, enrollVars, dbVer, mreq, favourites, authVars>>

\* The entry's timeout of 30 seconds has passed.
CacheExpire ==
    /\ cache # None
    /\ cache' = None
    /\ UNCHANGED <<courseVars, lessonVars, enrollVars, mainQs, dbVer, mreq, favourites, authVars, resp>>

(***************************************************************************)
(* Course create, update, delete.                                          *)
(***************************************************************************)
\* CourseCreateView.form_valid inside the atomic block: the row and its
\* author are written and cache.delete('courses') has run; the transaction
\* is not yet committed.
CourseCreateBegin(u, t) ==
    /\ mreq.pc = "idle"
    /\ dbVer < MaxMutations
    /\ nextCourse \in CourseIds
    /\ IF Refusal(u, "learning.add_course") # ""
       THEN /\ resp' = Resp("create", Refusal(u, "learning.add_course"), 0)
            /\ UNCHANGED <<cache, mreq, nextCourse>>
       ELSE /\ mreq' = [pc |-> "create", user |-> u, course |-> nextCourse, title |-> t]
            /\ nextCourse' = nextCourse + 1
            /\ cache' = None
            /\ UNCHANGED resp
    /\ UNCHANGED <<courses, title, authors, lessonVars, enrollVars, mainQs, dbVer, favourites, authVars>>

\* The atomic block is left: the transaction commits and the redirect is returned.
CourseCreateCommit ==
    /\ mreq.pc = "create"
    /\ courses' = courses \cup {mreq.course}
    /\ title' = [title EXCEPT ![mreq.course] = mreq.title]
    /\ authors' = [authors EXCEPT ![mreq.course] = {mreq.user}]
    /\ dbVer' = dbVer + 1
    /\ mreq' = IdleMut
    /\ resp' = Resp("create", "redirect_create_lesson", mreq.course)
    /\ UNCHANGED <<nextCourse, lessonVars, enrollVars, cache, mainQs, favourites, authVars>>

\* Whether CourseUpdateView lets client u edit course c: the login and the
\* permission check of the mixins, and get_queryset, which selects the course
\* by its id alone.
UpdateRefusal(u, c) == Refusal(u, "learning.change_course")

\* POST update/<c>/ with a valid form that sets the title to t.  The view
\* does not touch the cache.
CourseUpdate(u, c, t) ==
    /\ dbVer < MaxMutations
    /\ IF UpdateRefusal(u, c) # ""
       THEN /\ resp' = Resp("update", UpdateRefusal(u, c), c)
            /\ UNCHANGED <<title, dbVer>>
       ELSE IF c \notin courses
       THEN /\ resp' = Resp("update", "404", c)
            /\ UNCHANGED <<title, dbVer>>
       ELSE /\ title' = [title EXCEPT ![c] = t]
            /\ dbVer' = dbVer + 1
            /\ resp' = Resp("update", "redirect_detail", c)
    /\ UNCHANGED <<courses, authors, nextCourse, lessonVars, enrollVars, cache, mainQs, mreq,
                   favourites, authVars>>

\* CourseDeleteView.form_valid up to cache.delete_many([...]); the row is
\* still there.
CourseDeleteBegin(u, c) ==
    /\ mreq.pc = "idle"
    /\ dbVer < MaxMutations
    /\ IF Refusal(u, "learning.delete_course") # ""
       THEN /\ resp' = Resp("delete", Refusal(u, "learning.delete_course"), c)
            /\ UNCHANGED <<cache, mreq>>
       ELSE IF c \notin courses
       THEN /\ resp' = Resp("delete", "404", c)
            /\ UNCHANGED <<cache, mreq>>
       ELSE /\ mreq' = [pc |-> "delete", user |-> u, course |-> c, title |-> title[c]]
            /\ cache' = None
            /\ UNCHANGED resp
    /\ UNCHANGED <<courseVars, lessonVars, enrollVars, mainQs, dbVer, favourites, authVars>>

\* super().form_valid(form): the course is deleted, with its lessons and
\* their tracking rows, and the redirect is returned.
CourseDeleteCommit ==
    /\ mreq.pc = "delete"
    /\ courses' = courses \ {mreq.course}
    /\ authors' = [authors EXCEPT ![mreq.course] = {}]
    /\ lessons' = {l \in lessons : l.course # mreq.course}
    /\ tracking' = [t \in {x \in BagToSet(tracking) : \E l \in lessons' : l.id = x.lesson}
                      |-> tracking[t]]
    /\ dbVer' = dbVer + 1
    /\ mreq' = IdleMut
    /\ resp' = Resp("delete", "redirect_index", mreq.course)
    /\ UNCHANGED <<title, nextCourse, nextLesson, ereq, cache, mainQs, favourites, authVars>>

NextCourse ==
    \/ MainViewList
    \/ CacheExpire
    \/ \E u \in Clients, t \in Titles : CourseCreateBegin(u, t)
    \/ CourseCreateCommit
    \/ \E u \in Clients, c \in CourseIds : \E t \in Titles \ {title[c]} : CourseUpdate(u, c, t)
    \/ \E u \in Clients, c \in CourseIds : CourseDeleteBegin(u, c)
    \/ CourseDeleteCommit

SpecCourse == Init /\ [][NextCourse]_vars

(***************************************************************************)
(* Authors set in the admin site (CourseAdmin, filter_horizontal authors). *)
(***************************************************************************)
AdminAddAuthor(c, u) ==
    /\ c \in courses
    /\ u \notin authors[c]
    /\ authors' = [authors EXCEPT ![c] = @ \cup {u}]
    /\ UNCHANGED <<courses, title, nextCourse, lessonVars, enrollVars, cacheVars, favourites,
                   authVars, resp>>

AdminRemoveAuthor(c, u) ==
    /\ c \in courses
    /\ u \in authors[c]
    /\ authors' = [authors EXCEPT ![c] = @ \ {u}]
    /\ UNCHANGED <<courses, title, nextCourse, lessonVars, enrollVars, cacheVars, favourites,
                   authVars, resp>>

\* Lesson creation while the admin edits the authors of the courses.
NextLesson ==
    \/ \E u \in Clients, c \in CourseIds, err \in BOOLEAN : LessonCreate(u, c, err)
    \/ \E c \in CourseIds, u \in Users : AdminAddAuthor(c, u)
    \/ \E c \in CourseIds, u \in Users : AdminRemoveAuthor(c, u)

SpecLesson == Init /\ [][NextLesson]_vars

(***************************************************************************)
(* Favourites kept in the session: add_booking, remove_booking,            *)
(* FavouriteView.                                                          *)
(***************************************************************************)
Methods == {"GET", "POST"}

\* request.session.get('favourites', list())
FavouriteIds(f) == IF f = None THEN <<>> ELSE f[1]

\* list.remove(x): the list without the first element equal to x
RemoveFirst(list, x) ==
    LET i == CHOOSE k \in 1..Len(list) : list[k] = x /\ \A j \in 1..(k - 1) : list[j] # x
    IN SubSeq(list, 1, i - 1) \o SubSeq(list, i + 1, Len(list))

\* The courses FavouriteView lists for the favourites f:
\* queryset.filter(id__in=ids), a fresh query of the course table
Favourites(f) == {c \in courses : \E i \in 1..Len(FavouriteIds(f)) : FavouriteIds(f)[i] = c}

AddBooking(m, c) ==
    /\ Len(FavouriteIds(favourites)) < MaxFav
    /\ IF m = "POST"
       THEN favourites' = Some(Append(FavouriteIds(favourites), c))
       ELSE UNCHANGED favourites
    /\ resp' = Resp("add_booking", "redirect_index", c)
    /\ UNCHANGED <<courseVars, lessonVars, enrollVars, cacheVars, authVars>>

\* A POST raises when the session has no 'favourites' key (None has no
\* remove) or when the list does not hold course_id (list.remove raises
\* ValueError); the session is then left as it was.
RemoveBooking(m, c) ==
    /\ IF m # "POST"
       THEN /\ UNCHANGED favourites
            /\ resp' = Resp("remove_booking", "redirect_index", c)
       ELSE IF favourites = None \/ \A i \in 1..Len(FavouriteIds(favourites)) : favourites[1][i] # c
       THEN /\ UNCHANGED favourites
            /\ resp' = Resp("remove_booking", "error", c)
       ELSE /\ favourites' = Some(RemoveFirst(favourites[1], c))
            /\ resp' = Resp("remove_booking", "redirect_index", c)
    /\ UNCHANGED <<courseVars, lessonVars, enrollVars, cacheVars, authVars>>

\* GET favourites/
FavouriteViewList ==
    /\ MainGetQueryset
    /\ resp' = Resp("favourites", "ok", Cardinality(Favourites(favourites)))
    /\ UNCHANGED <<courseVars, lessonVars, enrollVars, dbVer, mreq, favourites, authVars>>

NextFav ==
    \/ \E m \in Methods, c \in CourseIds : AddBooking(m, c)
    \/ \E m \in Methods, c \in CourseIds : RemoveBooking(m, c)
    \/ FavouriteViewList

SpecFav == Init /\ [][NextFav]_vars

(***************************************************************************)
(* auth_app: groups, registration, login.                                  *)
(***************************************************************************)
\* The group names of the project, transliterated: "Uchenik" is the pupils'
\* default group of grant_pupil_rights, "Avtor" the authors' group.
PupilGroup == "Uchenik"
GroupNames == {PupilGroup, "Avtor"}
Accounts == {"x", "y"}
RememberValues == {"on", "off", "other"}     \* POST is_remember; "other": anything else, or missing

\* Group.objects.create(name=g)
AdminCreateGroup(g) ==
    /\ g \notin groupDb
    /\ groupDb' = groupDb \cup {g}
    /\ UNCHANGED <<courseVars, lessonVars, enrollVars, cacheVars, favourites, userDb, userGroups,
                   session, clock, resp>>

\* A group is deleted in the admin site; its memberships go with it.
AdminDeleteGroup(g) ==
    /\ g \in groupDb
    /\ groupDb' = groupDb \ {g}
    /\ userGroups' = [e \in Accounts |-> userGroups[e] \ {g}]
    /\ UNCHANGED <<courseVars, lessonVars, enrollVars, cacheVars, favourites, userDb,
                   session, clock, resp>>

\* grant_pupil_rights(sender, instance=e, created): the groups of e after the
\* post_save receiver has run
grant_pupil_rights(e, created) ==
    IF created
    THEN {g \in groupDb : g = PupilGroup}     \* instance.groups.set(Group.objects.filter(name=...))
    ELSE userGroups[e]

\* django.contrib.auth.login(request, user) on the session: a session that
\* belongs to another authenticated user is flushed (emptied), any other keeps
\* its data; then the user is stored in it.
login(sess, e) ==
    IF sess.user # Anon /\ sess.user # e
    THEN [user |-> e, remember |-> None, expiry |-> "unset"]
    ELSE [sess EXCEPT !.user = e]

\* RegisterView.form_valid for a new account e: form.save() creates the user
\* (post_save, created=True), login() stores it in the session, and
\* CreateView.form_valid saves the form once more (post_save, created=False).
Register(e) ==
    /\ e \notin userDb
    /\ userDb' = userDb \cup {e}
    /\ userGroups' = [userGroups EXCEPT ![e] = grant_pupil_rights(e, TRUE)]
    /\ session' = login(session, e)
    /\ resp' = Resp("register", "redirect_index", 0)
    /\ UNCHANGED <<courseVars, lessonVars, enrollVars, cacheVars, favourites, groupDb, clock>>

\* An existing account is saved with its groups set to gs (the admin's user
\* form): post_save with created=False.
AdminSaveUser(e, gs) ==
    /\ e \in userDb
    /\ userGroups' = [userGroups EXCEPT ![e] = gs]
    /\ UNCHANGED <<courseVars, lessonVars, enrollVars, cacheVars, favourites, groupDb, userDb,
                   session, clock, resp>>

\* An existing account is saved again (a profile change, last_login):
\* post_save with created=False.
UserSave(e) ==
    /\ e \in userDb
    /\ userGroups' = [userGroups EXCEPT ![e] = grant_pupil_rights(e, FALSE)]
    /\ resp' = Resp("save_user", "ok", 0)
    /\ UNCHANGED <<courseVars, lessonVars, enrollVars, cacheVars, favourites, groupDb, userDb,
                   session, clock>>

\* The session after the "remember me" branch of UserLoginView.form_valid
Remember(sess, is_remember) ==
    IF is_remember = "on"
    THEN [sess EXCEPT !.remember = Some(clock),        \* session[REMEMBER_KEY] = now
                      !.expiry = "REMEMBER_AGE"]       \* set_expiry(settings.REMEMBER_AGE)
    ELSE IF is_remember = "off"
    THEN [sess EXCEPT !.expiry = "0"]                  \* set_expiry(0)
    ELSE sess

\* UserLoginView.form_valid for valid credentials of account e: the remember
\* branch, one account_access notification, then LoginView.form_valid, which
\* calls login().  resp.n counts the notifications the request has sent.
Login(e, is_remember) ==
    /\ e \in userDb
    /\ session' = login(Remember(session, is_remember), e)
    /\ resp' = Resp("login", "redirect_index", 1)
    /\ UNCHANGED <<courseVars, lessonVars, enrollVars, cacheVars, favourites, groupDb, userDb,
                   userGroups, clock>>

\* Time passes.
Tick ==
    /\ clock < MaxClock
    /\ clock' = clock + 1
    /\ UNCHANGED <<courseVars, lessonVars, enrollVars, cacheVars, favourites, groupDb, userDb,
                   userGroups, session, resp>>

NextAuth ==
    \/ \E g \in GroupNames : AdminCreateGroup(g)
    \/ \E g \in GroupNames : AdminDeleteGroup(g)
    \/ \E e \in Accounts : Register(e)
    \/ \E e \in Accounts, gs \in SUBSET groupDb : AdminSaveUser(e, gs)
    \/ \E e \in Accounts : UserSave(e)
    \/ \E e \in Accounts, v \in RememberValues : Login(e, v)
    \/ Tick

SpecAuth == Init /\ [][NextAuth]_vars

(***************************************************************************)
(* Properties of enrollment and certificates.                              *)
(***************************************************************************)
\* The committed Tracking rows of user u for lessons of course c, as a set of
\* distinct row values
RowsOf(u, c) ==
    {t \in BagToSet(tracking) :
        t.user = u /\ \E l \in lessons : l.id = t.lesson /\ l.course = c}

\* The number of committed Tracking rows of user u for lesson id lid
CopiesOf(u, lid) ==
    CopiesIn([user |-> u, lesson |-> lid, passed |-> FALSE], tracking)
    + CopiesIn([user |-> u, lesson |-> lid, passed |-> TRUE], tracking)

\* C1: for every user u and lesson l at most one Tracking row (u, l) exists in
\* every reachable state, also when two enroll requests of the same user for
\* the same course overlap.
C1_AtMostOneTrackingRow ==
    \A u \in Users : \A l \in lessons : CopiesOf(u, l.id) <= 1

\* C3: get_certificate_view sends the certificate to user u for course c only
\* when u has Tracking rows for c and every one of them is passed; with a row
\* that is not passed, or with no row at all, nothing is sent and the answer is
\* 'course not completed'.
C3_CertificateOnlyWhenAllPassed ==
    \A u \in Clients, c \in courses :
        /\ (CertificateResponse(u, c) = "certificate_sent")
             <=> (u # Anon /\ RowsOf(u, c) # {} /\ \A t \in RowsOf(u, c) : t.passed)
        /\ (u # Anon /\ (RowsOf(u, c) = {} \/ \E t \in RowsOf(u, c) : ~t.passed))
             => CertificateResponse(u, c) = "not_completed"

\* C3 witness: a certificate was sent, to a user whose rows are passed.
C3_Witness ==
    /\ resp.op = "get_certificate"
    /\ resp.result = "certificate_sent"
    /\ \E t \in BagToSet(tracking) : t.passed

\* C4: a successful enroll(u, c) of an authorised user without a Tracking row
\* for c creates exactly one row for each lesson that belongs to c when the
\* lessons are read, each with user = u and passed = False, and no row for a
\* lesson of another course or for another user.
C4_EnrollCreatesOneRowPerLesson ==
    [][/\ \A r \in ReqIds :
            EnrollCreate(r) =>
               ereq'[r].lessons = {l \in lessons : l.course = ereq[r].course}
       /\ \A r \in ReqIds :
            EnrollCommit(r) =>
               LET u   == ereq[r].user
                   c   == ereq[r].course
                   ls  == ereq[r].lessons
                   new == tracking' (-) tracking
               IN /\ tracking \sqsubseteq tracking'
                  /\ \A l \in ls :
                        CopiesIn([user |-> u, lesson |-> l.id, passed |-> FALSE], new) = 1
                  /\ \A t \in BagToSet(new) :
                        /\ t.user = u
                        /\ t.passed = FALSE
                        /\ \E l \in ls : l.id = t.lesson /\ l.course = c
                  /\ BagCardinality(new) = Cardinality(ls)]_vars

\* C4 witness: an enroll committed rows while lessons of two courses exist.
C4_Witness ==
    /\ resp.op = "enroll"
    /\ resp.result = "redirect_tracking"
    /\ resp.n >= 1
    /\ \E l1 \in lessons, l2 \in lessons : l1.course # l2.course

\* C5: enrollment is all-or-nothing: when enroll fails after the rows were
\* bulk-created, the transaction is rolled back, the Tracking rows are those
\* from before the request and none of the request's rows remains.
C5_FailedEnrollLeavesNoRows ==
    [][\A r \in ReqIds :
         EnrollFail(r) => /\ tracking' = tracking
                          /\ ereq'[r].rows = EmptyBag]_vars

\* C5 witness: an enroll failed after it had inserted rows.
C5_Witness ==
    /\ resp.op = "enroll"
    /\ resp.result = "error"
    /\ resp.n >= 1

(***************************************************************************)
(* Properties of the course views.                                         *)
(***************************************************************************)
\* C2: only a course's listed authors may edit it: an update request for
\* course c through CourseUpdateView by a user who is not in c.authors never
\* changes c, whatever permissions the user holds.
C2_OnlyAuthorsEditCourse ==
    [][\A u \in Clients, c \in CourseIds, t \in Titles :
         (CourseUpdate(u, c, t) /\ u \notin authors[c]) => title'[c] = title[c]]_vars

\* C6: once a course create, update or delete request has completed, a call of
\* MainView.get_queryset does not return a 'courses' cache entry computed
\* before that mutation.
C6_ListServesNoEntryOlderThanMutation ==
    [][(MainViewList /\ cache # None) => cache[1].ver >= dbVer]_vars

\* C10: LessonCreateView adds a Lesson row only for an authenticated user who
\* holds learning.add_lesson and only in a course that user is an author of.
C10_LessonOnlyByPermittedAuthor ==
    [][\A u \in Clients, c \in CourseIds, err \in BOOLEAN :
         (LessonCreate(u, c, err) /\ lessons' # lessons) =>
            /\ is_authenticated(u)
            /\ has_perm(u, "learning.add_lesson")
            /\ u \in authors[c]]_vars

(***************************************************************************)
(* Properties of the favourites and of auth_app.                           *)
(***************************************************************************)
\* C7: when a User is saved for the first time, grant_pupil_rights sets the
\* user's groups to exactly the default group "Uchenik"; a later save of an
\* existing user leaves the user's groups unchanged.
C7_NewUserGetsDefaultGroup ==
    [][/\ \A e \in Accounts : Register(e) => userGroups'[e] = {PupilGroup}
       /\ \A e \in Accounts : UserSave(e) => userGroups'[e] = userGroups[e]]_vars

\* C8: on a valid login the session follows is_remember: 'on' stores the login
\* timestamp under REMEMBER_KEY and sets the expiry to REMEMBER_AGE, 'off'
\* sets the expiry to 0, any other value leaves the expiry unchanged; in all
\* three cases one account_access notification is sent and the user is logged
\* in.
C8_LoginFollowsRememberMe ==
    [][\A e \in Accounts, v \in RememberValues :
         Login(e, v) =>
            /\ v = "on" => /\ session'.remember = Some(clock)
                           /\ session'.expiry = "REMEMBER_AGE"
            /\ v = "off" => session'.expiry = "0"
            /\ v = "other" => session'.expiry = session.expiry
            /\ resp'.n = 1
            /\ session'.user = e]_vars

\* C9: a remove_booking POST for course c that completes leaves c absent from
\* the session's favourites, so that FavouriteView no longer lists c, however
\* often add_booking was posted for c before; a GET of either endpoint leaves
\* the favourites unchanged.
C9_RemoveBookingRemovesCourse ==
    [][/\ \A c \in CourseIds :
            (RemoveBooking("POST", c) /\ resp'.result = "redirect_index") =>
               /\ \A i \in 1..Len(FavouriteIds(favourites')) : FavouriteIds(favourites')[i] # c
               /\ c \notin Favourites(favourites')
       /\ \A c \in CourseIds :
            (AddBooking("GET", c) \/ RemoveBooking("GET", c)) => favourites' = favourites]_vars

====
